---- MODULE Spec2Model ----
(***************************************************************************)
(* Model of the route-to-risk pipeline of the MASS Route Display backend:  *)
(* rtz_parser.parse_rtz, hotspot_analyzer.analyze_route,                   *)
(* hotspot_analyzer.generate_advisories and                                *)
(* hotspot_analyzer.compute_risk_summary (Spec), of analyze_route as a     *)
(* library function (SpecLib), of generate_advisories under relabelled     *)
(* zone lists (SpecLabels), and of the request handlers of app.py with     *)
(* their in-memory caches and transmission log (SpecService).              *)
(*                                                                         *)
(* Python dicts that are shared by reference (leg records) live in `heap`, *)
(* a sequence of leg records addressed by index; a waypoint's `leg` field  *)
(* is such an address, or NoLeg for None.  Optional values are sequences   *)
(* of length 0 (absent) or 1 (present).  Distances (haversine, floats) are *)
(* not modelled.                                                           *)
(***************************************************************************)
EXTENDS Integers, Sequences, FiniteSets, TLC

VARIABLES pc, doc, hotspots, heap, waypoints, enriched, advisories, riskSummary

\* the service (app.py): what the route source would deliver now, the
\* in-memory state, the answer to the last request, and the history of the
\* requests (lastGood, analysisOf, runs)
VARIABLES source, cachedRoute, cachedAnalysis, transmissionLog, response,
          lastGood, analysisOf, runs

svcVars == <<source, cachedRoute, cachedAnalysis, transmissionLog, response,
             lastGood, analysisOf, runs>>

vars == <<pc, doc, hotspots, heap, waypoints, enriched, advisories, riskSummary,
          svcVars>>

(***************************************************************************)
(* Bounds of the model.                                                    *)
(***************************************************************************)
MaxWaypoints == 3
MaxZones == 2
\* entries of the transmission log
MaxLog == 2

(***************************************************************************)
(* Generic helpers.                                                        *)
(***************************************************************************)
Range(s) == { s[i] : i \in 1..Len(s) }

Max2(a, b) == IF a >= b THEN a ELSE b

RECURSIVE SeqsUpTo(_, _)
\* all sequences over S of length 0..n
SeqsUpTo(S, n) ==
    IF n = 0 THEN { <<>> }
    ELSE LET shorter == SeqsUpTo(S, n - 1)
         IN shorter \cup { Append(s, x) : s \in { t \in shorter : Len(t) = n - 1 }, x \in S }

(***************************************************************************)
(* hotspot_analyzer.py: severity ranking and type mappings.                *)
(***************************************************************************)
RankHigh == 3
RankMedium == 2
RankLow == 1

\* SEVERITY_RANK.get(sev, dflt)
SEVERITY_RANK(sev, dflt) ==
    CASE sev = "high" -> RankHigh
      [] sev = "medium" -> RankMedium
      [] sev = "low" -> RankLow
      [] OTHER -> dflt

\* _TYPE_TO_ADVISORY.get(hs_type, "traffic_density_warning")
TYPE_TO_ADVISORY(hsType) ==
    CASE hsType = "high_traffic_density" -> "traffic_density_warning"
      [] hsType = "crossing_traffic" -> "crossing_traffic_alert"
      [] hsType = "congestion" -> "congestion_advisory"
      [] hsType = "fishing_activity" -> "fishing_activity_notice"
      [] OTHER -> "traffic_density_warning"

\* _ADVISORY_DEFAULT_SEVERITY.get(adv_type, "medium")
ADVISORY_DEFAULT_SEVERITY(advType) ==
    CASE advType = "traffic_density_warning" -> "high"
      [] advType = "crossing_traffic_alert" -> "high"
      [] advType = "congestion_advisory" -> "medium"
      [] advType = "fishing_activity_notice" -> "low"
      [] advType = "speed_recommendation" -> "medium"
      [] advType = "arrival_window_advisory" -> "medium"
      [] OTHER -> "medium"

\* _ADVISORY_TITLE_PREFIX.get(adv_type, ...)
ADVISORY_TITLE_PREFIX(advType) ==
    CASE advType = "traffic_density_warning" -> "Traffic Density Warning"
      [] advType = "crossing_traffic_alert" -> "Crossing Traffic Alert"
      [] advType = "congestion_advisory" -> "Congestion Advisory"
      [] advType = "fishing_activity_notice" -> "Fishing Activity Notice"
      [] advType = "speed_recommendation" -> "Speed Recommendation"
      [] advType = "arrival_window_advisory" -> "Arrival Window Advisory"
      [] OTHER -> advType

\* _RECOMMENDED_ACTIONS.get(adv_type, generic text); the texts are named by key
RECOMMENDED_ACTIONS(advType) ==
    IF advType \in { "traffic_density_warning", "crossing_traffic_alert",
                     "congestion_advisory", "fishing_activity_notice" }
    THEN <<"action", advType>>
    ELSE <<"action", "generic">>

(***************************************************************************)
(* Geometry: shapely's LineString.intersects(polygon) for a straight leg   *)
(* and a convex polygon ring with integer coordinates.  A point is         *)
(* <<lon, lat>>.  A geometry with no usable ring is not constructible.     *)
(***************************************************************************)
Cross(a, b, c) == (b[1] - a[1]) * (c[2] - a[2]) - (b[2] - a[2]) * (c[1] - a[1])

Sign(n) == IF n > 0 THEN 1 ELSE IF n < 0 THEN -1 ELSE 0

Min2(a, b) == IF a <= b THEN a ELSE b

\* c lies in the bounding box of segment a-b
InBox(a, b, c) ==
    /\ Min2(a[1], b[1]) <= c[1] /\ c[1] <= Max2(a[1], b[1])
    /\ Min2(a[2], b[2]) <= c[2] /\ c[2] <= Max2(a[2], b[2])

\* closed segments p1-p2 and q1-q2 share a point
SegmentsIntersect(p1, p2, q1, q2) ==
    LET d1 == Sign(Cross(q1, q2, p1))
        d2 == Sign(Cross(q1, q2, p2))
        d3 == Sign(Cross(p1, p2, q1))
        d4 == Sign(Cross(p1, p2, q2))
    IN \/ (d1 * d2 < 0 /\ d3 * d4 < 0)
       \/ (d1 = 0 /\ InBox(q1, q2, p1))
       \/ (d2 = 0 /\ InBox(q1, q2, p2))
       \/ (d3 = 0 /\ InBox(p1, p2, q1))
       \/ (d4 = 0 /\ InBox(p1, p2, q2))

RingEdges(ring) == { <<ring[i], ring[(i % Len(ring)) + 1]>> : i \in 1..Len(ring) }

\* p is inside or on the boundary of the convex ring
PointInRing(p, ring) ==
    \/ \A e \in RingEdges(ring) : Cross(e[1], e[2], p) >= 0
    \/ \A e \in RingEdges(ring) : Cross(e[1], e[2], p) <= 0

\* shape(hs["geometry"]) succeeds
GeometryOk(hs) == Len(hs.geometry) >= 3

\* leg_line.intersects(geom)
Intersects(a, b, ring) ==
    \/ PointInRing(a, ring)
    \/ \E e \in RingEdges(ring) : SegmentsIntersect(a, b, e[1], e[2])

(***************************************************************************)
(* ETA strings and peak-hour windows.                                      *)
(* An eta is [kind, hh, mm]: kind "none" is None, "empty" is "", "iso" is  *)
(* the text "2026-04-27Thh:mm:00Z", "text" is a string that is no          *)
(* timestamp.  A window is the text split at "-": a sequence of ends, each *)
(* end the text split at ":" (a sequence of numbers).                      *)
(***************************************************************************)
EtaNone == [kind |-> "none", hh |-> 0, mm |-> 0]
EtaEmpty == [kind |-> "empty", hh |-> 0, mm |-> 0]
EtaText == [kind |-> "text", hh |-> 0, mm |-> 0]
EtaIso(h, m) == [kind |-> "iso", hh |-> h, mm |-> m]

\* Python truthiness of an eta string
EtaTruthy(eta) == eta.kind \in { "iso", "text" }

\* datetime.fromisoformat(eta_str.replace("Z", "+00:00")) does not raise
IsoParses(eta) ==
    /\ eta.kind = "iso"
    /\ eta.hh \in 0..23
    /\ eta.mm \in 0..59

\* _parse_peak_hour_window: <<start_hour, end_hour>> in a 1-sequence, or <<>>
ParsePeakHourWindow(window) ==
    IF Len(window) = 2 /\ Len(window[1]) >= 1 /\ Len(window[2]) >= 1
    THEN << <<window[1][1], window[2][1]>> >>
    ELSE <<>>

RECURSIVE LastMatchingWindow(_, _, _)
\* like FirstMatchingWindow, but a later match replaces an earlier one
LastMatchingWindow(hour, peakHours, k) ==
    IF k > Len(peakHours) THEN 0
    ELSE LET parsed == ParsePeakHourWindow(peakHours[k])
             later == LastMatchingWindow(hour, peakHours, k + 1)
         IN IF later /= 0 THEN later
            ELSE IF parsed /= <<>> /\ parsed[1][1] <= hour /\ hour < parsed[1][2]
                 THEN k ELSE 0

RECURSIVE FirstMatchingWindow(_, _, _)
\* the loop of _eta_in_peak_window from index k on: index of the first match, or 0
FirstMatchingWindow(hour, peakHours, k) ==
    IF k > Len(peakHours) THEN 0
    ELSE LET parsed == ParsePeakHourWindow(peakHours[k])
         IN IF parsed /= <<>> /\ parsed[1][1] <= hour /\ hour < parsed[1][2]
            THEN k
            ELSE FirstMatchingWindow(hour, peakHours, k + 1)

\* _eta_in_peak_window: [inPeak, window] with window a 0/1-sequence
EtaInPeakWindow(eta, peakHours) ==
    IF ~EtaTruthy(eta) \/ peakHours = <<>>
    THEN [inPeak |-> FALSE, window |-> <<>>]
    ELSE IF ~IsoParses(eta)
    THEN [inPeak |-> FALSE, window |-> <<>>]
    ELSE LET k == FirstMatchingWindow(eta.hh, peakHours, 1)
         IN IF k = 0 THEN [inPeak |-> FALSE, window |-> <<>>]
            ELSE [inPeak |-> TRUE, window |-> <<peakHours[k]>>]

(***************************************************************************)
(* rtz_parser.py.  A document is the parsed XML tree:                      *)
(*   [defaultLeg, waypoints, schedules], defaultLeg a 0/1-sequence of leg  *)
(*   elements, waypoints a sequence of waypoint elements                   *)
(*   [id, name, position, leg] (name, position, leg 0/1-sequences),        *)
(*   schedules a sequence of schedules, each the sequence of its           *)
(*   scheduleElements [waypointId, eta].                                   *)
(***************************************************************************)
NoLeg == 0

\* A leg dict is [attrs, riskAssessment], both 0/1-sequences: attrs holds the
\* four parsed keys when the dict has them, riskAssessment the value of that
\* key when the dict has it.  The empty dict {} has neither.
EmptyLeg == [attrs |-> <<>>, riskAssessment |-> <<>>]

\* Python truthiness of a leg reference: not None and not an empty dict
LegTruthy(h, leg) == leg /= NoLeg /\ h[leg] /= EmptyLeg

\* _parse_leg for a present element: a new leg dict (no riskAssessment key)
ParseLeg(legEl) ==
    [attrs |-> << [speedMax |-> legEl.speedMax, portsideXTD |-> 0, starboardXTD |-> 0,
                   geometryType |-> "Loxodrome"] >>,
     riskAssessment |-> <<>>]

\* wp_el.get("name", f"WP_{id}")
WaypointName(wpEl) == IF wpEl.name /= <<>> THEN wpEl.name ELSE <<"WP_", wpEl.id>>

RECURSIVE ParseWaypoints(_, _, _, _, _)
\* the waypoint loop of parse_rtz from element k on; defaultLeg is the address
\* of the shared default leg dict or NoLeg; returns [waypoints, heap]
ParseWaypoints(els, k, defaultLeg, h, acc) ==
    IF k > Len(els) THEN [waypoints |-> acc, heap |-> h]
    ELSE LET el == els[k]
         IN IF el.position = <<>>
            THEN ParseWaypoints(els, k + 1, defaultLeg, h, acc)
            ELSE LET own == el.leg /= <<>>
                     h2 == IF own THEN Append(h, ParseLeg(el.leg[1])) ELSE h
                     leg == IF own THEN Len(h2) ELSE defaultLeg
                     wp == [id |-> el.id, name |-> WaypointName(el),
                            lon |-> el.position[1][1], lat |-> el.position[1][2],
                            leg |-> leg, eta |-> EtaNone]
                 IN ParseWaypoints(els, k + 1, defaultLeg, h2, Append(acc, wp))

RECURSIVE Flatten(_)
\* all schedule elements, schedules in document order, elements in order
Flatten(schedules) ==
    IF schedules = <<>> THEN <<>>
    ELSE Head(schedules) \o Flatten(Tail(schedules))

RECURSIVE EtaLookupFirst(_, _, _)
\* like EtaLookup, but the first element of an id wins
EtaLookupFirst(elems, k, id) ==
    IF k = 0 THEN EtaNone
    ELSE LET earlier == EtaLookupFirst(elems, k - 1, id)
         IN IF \E j \in 1..(k - 1) : elems[j].waypointId = id THEN earlier
            ELSE IF elems[k].waypointId = id THEN elems[k].eta
            ELSE EtaNone

RECURSIVE EtaLookup(_, _, _)
\* eta_lookup after processing the first k elements, read at key id:
\* eta_lookup.get(id, None)
EtaLookup(elems, k, id) ==
    IF k = 0 THEN EtaNone
    ELSE IF elems[k].waypointId = id THEN elems[k].eta
    ELSE EtaLookup(elems, k - 1, id)

\* parse_rtz: [waypoints, heap]
ParseRtz(d) ==
    LET h0 == IF d.defaultLeg /= <<>> THEN <<ParseLeg(d.defaultLeg[1])>> ELSE <<>>
        defaultLeg == IF d.defaultLeg /= <<>> THEN 1 ELSE NoLeg
        parsed == ParseWaypoints(d.waypoints, 1, defaultLeg, h0, <<>>)
        elems == Flatten(d.schedules)
    IN [waypoints |-> [i \in 1..Len(parsed.waypoints) |->
                         [parsed.waypoints[i] EXCEPT
                            !.eta = EtaLookup(elems, Len(elems), parsed.waypoints[i].id)]],
        heap |-> parsed.heap]

(***************************************************************************)
(* The inputs: route documents and hotspot catalogues.                     *)
(***************************************************************************)
P0 == <<0, 0>>
P1 == <<4, 0>>
P2 == <<4, 4>>
Points == { P0, P1, P2 }

\* leg P0-P1 crosses RingA, leg P1-P2 crosses RingB, leg P0-P2 touches both
RingA == << <<1, -1>>, <<3, -1>>, <<3, 1>>, <<1, 1>> >>
RingB == << <<3, 1>>, <<5, 1>>, <<5, 3>>, <<3, 3>> >>

W0610 == << <<6, 0>>, <<10, 0>> >>
W1113 == << <<11, 0>>, <<13, 0>> >>
W0745 == << <<7, 45>>, <<10, 0>> >>
WNoDash == << <<6, 0, 10, 0>> >>

Missing == "<missing>"

Zone(id, name, type, severity, geometry, avg, peaks, dominant, notes) ==
    [id |-> id, name |-> name, type |-> type, severity |-> severity,
     geometry |-> geometry,
     metadata |-> [avg_vessels_per_hour |-> avg, peak_hours_utc |-> peaks,
                   dominant_vessel_types |-> dominant, notes |-> notes]]

ZoneCongestion ==
    Zone("HS-1", "Strait", "congestion", "medium", RingA, <<12>>, <<W0610>>, <<"tanker">>, "VTS")
ZoneFishing ==
    Zone("HS-2", "Banks", "fishing_activity", "low", RingB, <<>>, <<WNoDash, W0745>>, <<>>, "")
ZoneDensity ==
    Zone("HS-3", "TSS", "high_traffic_density", "high", RingA, <<30>>, <<W1113>>, <<>>, "")
\* same id as ZoneCongestion
ZoneCrossing ==
    Zone("HS-1", "Crossing", "crossing_traffic", "high", RingB, <<8>>, <<>>, <<>>, "")
\* footprint that cannot be constructed
ZoneBroken ==
    Zone("HS-4", "Broken", "congestion", "high", <<>>, <<>>, <<W0610>>, <<>>, "")
\* type outside the table, severity label absent
ZoneOdd ==
    Zone("HS-5", "Odd", "piracy", Missing, RingB, <<3>>, <<W1113, W0745, W0610>>, <<>>, "")

ZonePool == { ZoneCongestion, ZoneFishing, ZoneDensity, ZoneCrossing, ZoneBroken, ZoneOdd }

\* catalogues: lists of up to MaxZones different zone records
Catalogues == { s \in SeqsUpTo(ZonePool, MaxZones) : Cardinality(Range(s)) = Len(s) }

LegEl == [speedMax |-> 12]

SchedulePool ==
    { <<>>,
      << << [waypointId |-> 1, eta |-> EtaIso(7, 30)],
            [waypointId |-> 2, eta |-> EtaIso(12, 0)],
            [waypointId |-> 3, eta |-> EtaIso(9, 59)] >> >>,
      << << [waypointId |-> 1, eta |-> EtaIso(12, 0)],
            [waypointId |-> 2, eta |-> EtaIso(24, 0)] >>,
         << [waypointId |-> 1, eta |-> EtaIso(7, 30)],
            [waypointId |-> 3, eta |-> EtaText] >> >> }

\* waypoint ids along the route: increasing or decreasing
IdSeqs(n) == { [i \in 1..n |-> i], [i \in 1..n |-> n + 1 - i] }

\* documents with up to MaxWaypoints waypoints; ownLeg: the first waypoint
\* has a leg element of its own, the others rely on the default leg
DocsAt(pos) ==
    { [defaultLeg |-> IF hasDefault THEN <<LegEl>> ELSE <<>>,
       waypoints |-> [i \in 1..Len(pos) |->
                        [id |-> ids[i],
                         name |-> IF i = 1 THEN <<"Pilot">> ELSE <<>>,
                         position |-> <<pos[i]>>,
                         leg |-> IF ownLeg /\ i = 1 THEN <<LegEl>> ELSE <<>>]],
       schedules |-> sched] :
        hasDefault \in BOOLEAN, ownLeg \in BOOLEAN, sched \in SchedulePool,
        ids \in IdSeqs(Len(pos)) }

\* tracks of up to MaxWaypoints positions, consecutive waypoints apart
Tracks ==
    { pos \in SeqsUpTo(Points, MaxWaypoints) :
        \A i \in 1..(Len(pos) - 1) : pos[i] /= pos[i + 1] }

Docs == UNION { DocsAt(pos) : pos \in Tracks }

(***************************************************************************)
(* hotspot_analyzer.analyze_route                                          *)
(***************************************************************************)
\* shapely_hotspots: the zones whose geometry could be built, in list order
ShapelyHotspotsAll(hs) == hs

ShapelyHotspots(hs) == SelectSeq(hs, GeometryOk)

\* the zones of shapely_hotspots that the leg from wp to wpNext intersects
IntersectingZones(wp, wpNext, hs) ==
    LET a == <<wp.lon, wp.lat>>
        b == <<wpNext.lon, wpNext.lat>>
        Hit(z) == Intersects(a, b, z.geometry)
    IN SelectSeq(ShapelyHotspots(hs), Hit)

\* h.get("severity", "low")
SeverityOf(z) == IF z.severity = Missing THEN "low" ELSE z.severity

\* the key of max(): SEVERITY_RANK.get(h.get("severity", "low"), 0)
SeverityKey(z) == SEVERITY_RANK(SeverityOf(z), 0)

RECURSIVE HighestFrom(_, _, _)
\* Python's max(intersecting, key=...): the first element with the largest key
HighestFrom(zs, k, best) ==
    IF k > Len(zs) THEN best
    ELSE HighestFrom(zs, k + 1, IF SeverityKey(zs[k]) > SeverityKey(best) THEN zs[k] ELSE best)

HighestFirst(zs) == zs[1]

Highest(zs) == HighestFrom(zs, 2, zs[1])

\* the riskAssessment dict built for a leg with the given intersecting zones
RiskAssessment(intersecting) ==
    [level |-> SeverityOf(Highest(intersecting)),
     intersectingHotspots |-> [k \in 1..Len(intersecting) |-> intersecting[k].id],
     summary |-> [k \in 1..Len(intersecting) |->
                    <<intersecting[k].name, intersecting[k].metadata.avg_vessels_per_hour>>]]

\* wp_copy["leg"] = dict(wp_copy["leg"]) when the leg is truthy: the copy is a
\* new heap cell; returns [heap, leg]
CopyLegShared(h, leg) == [heap |-> h, leg |-> leg]

\* a copy that keeps the leg attributes only
CopyLegBare(h, leg) ==
    IF LegTruthy(h, leg)
    THEN [heap |-> Append(h, [h[leg] EXCEPT !.riskAssessment = <<>>]), leg |-> Len(h) + 1]
    ELSE [heap |-> h, leg |-> leg]

CopyLeg(h, leg) ==
    IF LegTruthy(h, leg)
    THEN [heap |-> Append(h, h[leg]), leg |-> Len(h) + 1]
    ELSE [heap |-> h, leg |-> leg]

\* leg = wp_copy.get("leg") or {}; leg["riskAssessment"] = ra; wp_copy["leg"] = leg
AttachRisk(h, leg, ra) ==
    IF LegTruthy(h, leg)
    THEN [heap |-> [h EXCEPT ![leg].riskAssessment = <<ra>>], leg |-> leg]
    ELSE [heap |-> Append(h, [EmptyLeg EXCEPT !.riskAssessment = <<ra>>]),
          leg |-> Len(h) + 1]

RECURSIVE AnalyzeFrom(_, _, _, _, _)
\* the waypoint loop of analyze_route from index i on; returns [enriched, heap]
AnalyzeFrom(wps, hs, i, h, acc) ==
    IF i > Len(wps) THEN [enriched |-> acc, heap |-> h]
    ELSE LET wp == wps[i]
             copied == CopyLeg(h, wp.leg)
             intersecting == IF i < Len(wps)
                             THEN IntersectingZones(wp, wps[i + 1], hs)
                             ELSE <<>>
             attached == IF intersecting /= <<>>
                         THEN AttachRisk(copied.heap, copied.leg,
                                         RiskAssessment(intersecting))
                         ELSE copied
         IN AnalyzeFrom(wps, hs, i + 1, attached.heap,
                        Append(acc, [wp EXCEPT !.leg = attached.leg]))

\* analyze_route(waypoints, hotspots): [enriched, heap]
AnalyzeRouteOp(wps, h, hs) == AnalyzeFrom(wps, hs, 1, h, <<>>)

\* h['name'] and h["id"] of an intersecting zone: KeyError if the key is absent
AnalyzeRaises(wps, hs) ==
    \E i \in 1..(Len(wps) - 1) :
        LET intersecting == IntersectingZones(wps[i], wps[i + 1], hs)
        IN \E k \in 1..Len(intersecting) :
              intersecting[k].name = Missing \/ intersecting[k].id = Missing

\* (wp.get("leg") or {}).get("riskAssessment"), a 0/1-sequence
RiskOf(h, wp) == IF wp.leg = NoLeg THEN <<>> ELSE h[wp.leg].riskAssessment

(***************************************************************************)
(* hotspot_analyzer.generate_advisories                                    *)
(***************************************************************************)
RECURSIVE HsByIdFrom(_, _, _)
\* hs_by_id.get(id): the dict comprehension keeps the last zone of each id
HsByIdFrom(hs, k, id) ==
    IF k = 0 THEN <<>>
    ELSE IF hs[k].id = id THEN <<hs[k]>>
    ELSE HsByIdFrom(hs, k - 1, id)

\* like HsById, but a zone labelled "low" is passed over
HsByIdAboveLow(hs, id) ==
    LET found == HsByIdFrom(hs, Len(hs), id)
    IN IF found /= <<>> /\ found[1].severity = "low" THEN <<>> ELSE found

HsById(hs, id) == HsByIdFrom(hs, Len(hs), id)

RECURSIVE Digits(_)
\* the decimal digits of n >= 0
Digits(n) == IF n < 10 THEN <<n>> ELSE Append(Digits(n \div 10), n % 10)

\* f"{n:03d}": zero-padded to at least three digits
Pad3(n) ==
    LET d == Digits(n)
    IN IF Len(d) >= 3 THEN d ELSE [k \in 1..(3 - Len(d)) |-> 0] \o d

\* f"ADV-{adv_date}-{adv_counter:03d}"
AdvId(counter) == <<"ADV", "2026-04-27", Pad3(counter)>>

\* adv_counter += 1
NextCounterStuck(counter) == counter

NextCounter(counter) == counter + 1

\* the eta that is tested against the peak windows: wp.get("eta", "")
LegEtaOfNext(ew, i) == ew[i + 1].eta

LegEta(ew, i) == ew[i].eta

\* the escalation step: severity after the peak-window test
EscalateNever(severity, inPeak) == severity

Escalate(severity, inPeak) ==
    IF inPeak /\ SEVERITY_RANK(severity, 1) < SEVERITY_RANK("high", 3)
    THEN "high"
    ELSE severity

\* eta_display: "" / strftime of the parsed eta / the raw string
EtaDisplay(eta) ==
    [shown |-> IF ~EtaTruthy(eta) THEN "empty"
               ELSE IF IsoParses(eta) THEN "formatted" ELSE "raw",
     eta |-> eta]

\* Python truthiness of avg_density (None and 0 are falsy)
AvgTruthy(avg) == avg /= <<>> /\ avg[1] /= 0

\* the advisory dict for the leg from ew[i] to ew[i + 1] and zone record z
Advisory(ew, i, hsId, z, counter) ==
    LET wp == ew[i]
        wpNext == ew[i + 1]
        advType == TYPE_TO_ADVISORY(z.type)
        meta == z.metadata
        peakHours == meta.peak_hours_utc
        etaStr == LegEta(ew, i)
        peak == EtaInPeakWindow(etaStr, peakHours)
        severity == Escalate(ADVISORY_DEFAULT_SEVERITY(advType), peak.inPeak)
        etaDisplay == EtaDisplay(etaStr)
        avg == meta.avg_vessels_per_hour
    IN [id |-> AdvId(counter),
        timestamp |-> "2026-04-27T06:00:00Z",
        type |-> advType,
        severity |-> severity,
        relatedWaypoints |-> <<wp.id, wpNext.id>>,
        relatedHotspots |-> <<hsId>>,
        title |-> <<ADVISORY_TITLE_PREFIX(advType), z.name>>,
        message |-> [transit |-> <<wp.id, wp.name, wpNext.id, wpNext.name, z.name>>,
                     average |-> IF AvgTruthy(avg) THEN avg ELSE <<>>,
                     peakPeriod |-> peakHours,
                     eta |-> IF etaDisplay.shown = "empty" THEN <<>>
                             ELSE << [waypoint |-> wp.id, display |-> etaDisplay,
                                      window |-> peak.window] >>,
                     dominant |-> meta.dominant_vessel_types,
                     notes |-> meta.notes],
        structuredData |->
            [affectedLegStart |-> [waypointId |-> wp.id, name |-> wp.name],
             affectedLegEnd |-> [waypointId |-> wpNext.id, name |-> wpNext.name],
             trafficDensity |-> IF AvgTruthy(avg) THEN avg ELSE <<>>,
             vesselETA |-> etaStr,
             peakWindow |-> peakHours,
             inPeakWindow |-> peak.inPeak,
             recommendedAction |-> RECOMMENDED_ACTIONS(advType)],
        transmissionStatus |-> "ready",
        transmissionMethod |-> "Furuno Cloud (pending two-way integration)"]

RECURSIVE EmitFrom(_, _, _, _, _, _, _)
\* the two nested loops of generate_advisories, at leg i and at position j of
\* that leg's intersectingHotspots; returns the advisories in emission order
EmitFrom(ew, h, hs, i, j, counter, acc) ==
    IF i >= Len(ew) THEN acc
    ELSE LET risk == RiskOf(h, ew[i])
         IN IF risk = <<>> \/ j > Len(risk[1].intersectingHotspots)
            THEN EmitFrom(ew, h, hs, i + 1, 1, counter, acc)
            ELSE LET hsId == risk[1].intersectingHotspots[j]
                     found == HsById(hs, hsId)
                 IN IF found = <<>>
                    THEN EmitFrom(ew, h, hs, i, j + 1, counter, acc)
                    ELSE EmitFrom(ew, h, hs, i, j + 1, NextCounter(counter),
                                  Append(acc, Advisory(ew, i, hsId, found[1], counter)))

\* the advisories list before the final sort
EmitAdvisories(ew, h, hs) == EmitFrom(ew, h, hs, 1, 1, 1, <<>>)

\* severity_order.get(severity, 3)
SeverityOrder(sev) ==
    CASE sev = "high" -> 0
      [] sev = "medium" -> 1
      [] sev = "low" -> 2
      [] OTHER -> 3

\* the sort key: (severity rank, relatedWaypoints[0] or 0)
SortKey(a) ==
    <<SeverityOrder(a.severity),
      IF a.relatedWaypoints /= <<>> THEN a.relatedWaypoints[1] ELSE 0>>

\* tuple comparison k1 < k2
KeyLess(k1, k2) == k1[1] < k2[1] \/ (k1[1] = k2[1] /\ k1[2] < k2[2])

RECURSIVE InsertSorted(_, _)
\* insert a behind every element whose key is not greater (stable)
InsertSorted(sorted, a) ==
    IF sorted = <<>> THEN <<a>>
    ELSE IF KeyLess(SortKey(a), SortKey(Head(sorted)))
         THEN <<a>> \o sorted
         ELSE <<Head(sorted)>> \o InsertSorted(Tail(sorted), a)

RECURSIVE StableSortFrom(_, _, _)
StableSortFrom(advs, k, acc) ==
    IF k > Len(advs) THEN acc
    ELSE StableSortFrom(advs, k + 1, InsertSorted(acc, advs[k]))

\* advisories.sort(key=...): Python's sort is stable
SortUnsorted(advs) == advs

SortAdvisories(advs) == StableSortFrom(advs, 1, <<>>)

\* generate_advisories(enriched_waypoints, route_info, hotspots)
\* the advisory counter continues where the transmission log stands
GenerateAdvisoriesCarried(ew, h, hs) ==
    SortAdvisories(EmitFrom(ew, h, hs, 1, 1, 1 + Len(transmissionLog), <<>>))

GenerateAdvisoriesOp(ew, h, hs) == SortAdvisories(EmitAdvisories(ew, h, hs))

(***************************************************************************)
(* hotspot_analyzer.compute_risk_summary                                   *)
(***************************************************************************)
\* the running maximum: overall_risk after seeing a leg of the given level
RaiseOverallLast(overall, level) == level

RaiseOverall(overall, level) ==
    IF SEVERITY_RANK(level, 0) > SEVERITY_RANK(overall, 0) THEN level ELSE overall

\* hotspot_ids after adding the ids of one leg; len() of it is hotspotCount
AddIdsCounting(ids, new) == ids \cup { <<Cardinality(ids) + k, new[k]>> : k \in 1..Len(new) }

AddIds(ids, new) == ids \cup Range(new)

\* the record appended to risky_legs for leg i (0-based legIndex)
RiskyLegShifted(ew, i, risk) ==
    [legIndex |-> i,
     fromWaypointId |-> ew[i].id, fromWaypointName |-> ew[i].name,
     toWaypointId |-> ew[i + 1].id, toWaypointName |-> ew[i + 1].name,
     riskLevel |-> risk.level, summary |-> risk.summary]

RiskyLeg(ew, i, risk) ==
    [legIndex |-> i - 1,
     fromWaypointId |-> ew[i].id, fromWaypointName |-> ew[i].name,
     toWaypointId |-> ew[i + 1].id, toWaypointName |-> ew[i + 1].name,
     riskLevel |-> risk.level, summary |-> risk.summary]

RECURSIVE SummaryFrom(_, _, _, _, _, _)
\* the loop of compute_risk_summary from waypoint i on
SummaryFrom(ew, h, i, overall, ids, legs) ==
    IF i >= Len(ew)
    THEN [overallRisk |-> overall, hotspotCount |-> Cardinality(ids), riskyLegs |-> legs]
    ELSE LET risk == RiskOf(h, ew[i])
         IN IF risk = <<>>
            THEN SummaryFrom(ew, h, i + 1, overall, ids, legs)
            ELSE SummaryFrom(ew, h, i + 1,
                             RaiseOverall(overall, risk[1].level),
                             AddIds(ids, risk[1].intersectingHotspots),
                             Append(legs, RiskyLeg(ew, i, risk[1])))

\* compute_risk_summary(enriched_waypoints)
ComputeRiskSummaryOp(ew, h) == SummaryFrom(ew, h, 1, "low", {}, <<>>)

(***************************************************************************)
(* The pipeline as a state machine: a route document and a hotspot         *)
(* catalogue are given; the document is parsed, the route analysed, and    *)
(* the advisories and the risk summary are derived from the analysis.      *)
(***************************************************************************)
NoSummary == [overallRisk |-> "low", hotspotCount |-> 0, riskyLegs |-> <<>>]

\* no request answered yet; warned: the request logged "Data source
\* unavailable - serving cached route data"
NoResponse ==
    [status |-> 0, route |-> <<>>, advisories |-> <<>>, riskSummary |-> <<>>,
     messageId |-> <<>>, warned |-> FALSE]

\* app.py at import: nothing cached, nothing transmitted
ServiceIdle ==
    /\ cachedRoute = <<>>
    /\ cachedAnalysis = <<>>
    /\ transmissionLog = <<>>
    /\ response = NoResponse
    /\ lastGood = <<>>
    /\ analysisOf = <<>>
    /\ runs = {}

Init ==
    /\ pc = "start"
    /\ doc \in Docs
    /\ hotspots \in Catalogues
    /\ heap = <<>>
    /\ waypoints = <<>>
    /\ enriched = <<>>
    /\ advisories = <<>>
    /\ riskSummary = NoSummary
    /\ source = <<>>
    /\ ServiceIdle

\* rtz_parser.parse_rtz
ParseRtzStep ==
    /\ pc = "start"
    /\ LET r == ParseRtz(doc)
       IN /\ waypoints' = r.waypoints
          /\ heap' = r.heap
    /\ pc' = "parsed"
    /\ UNCHANGED <<doc, hotspots, enriched, advisories, riskSummary, svcVars>>

\* one call of analyze_route on wps with the zone list hs: the call raises,
\* or it returns the annotated list and control goes on to `next`
AnalyzeCall(wps, hs, next) ==
    IF AnalyzeRaises(wps, hs)
    THEN /\ pc' = "error"
         /\ UNCHANGED <<enriched, heap>>
    ELSE LET r == AnalyzeRouteOp(wps, heap, hs)
         IN /\ enriched' = r.enriched
            /\ heap' = r.heap
            /\ pc' = next

\* hotspot_analyzer.analyze_route
AnalyzeRoute ==
    /\ pc = "parsed"
    /\ AnalyzeCall(waypoints, hotspots, "analyzed")
    /\ UNCHANGED <<doc, hotspots, waypoints, advisories, riskSummary, svcVars>>

\* hotspot_analyzer.generate_advisories
GenerateAdvisories ==
    /\ pc = "analyzed"
    /\ advisories' = GenerateAdvisoriesOp(enriched, heap, hotspots)
    /\ pc' = "advised"
    /\ UNCHANGED <<doc, hotspots, heap, waypoints, enriched, riskSummary, svcVars>>

\* hotspot_analyzer.compute_risk_summary
ComputeRiskSummary ==
    /\ pc = "advised"
    /\ riskSummary' = ComputeRiskSummaryOp(enriched, heap)
    /\ pc' = "done"
    /\ UNCHANGED <<doc, hotspots, heap, waypoints, enriched, advisories, svcVars>>

Next ==
    \/ ParseRtzStep
    \/ AnalyzeRoute
    \/ GenerateAdvisories
    \/ ComputeRiskSummary

Spec == Init /\ [][Next]_vars

(***************************************************************************)
(* analyze_route as a library function: zone records that lack keys, and   *)
(* a second call whose input is the annotated list the first call          *)
(* returned, with any zone list.                                           *)
(***************************************************************************)
\* no "name" key
ZoneNameless ==
    Zone("HS-6", Missing, "congestion", "medium", RingA, <<12>>, <<>>, <<>>, "")
\* no "id" key
ZoneNoId ==
    Zone(Missing, "Shoal", "fishing_activity", "low", RingB, <<>>, <<>>, <<>>, "")

LibZonePool == { ZoneCongestion, ZoneFishing, ZoneBroken, ZoneNameless, ZoneNoId }

LibCatalogues == { s \in SeqsUpTo(LibZonePool, MaxZones) : Cardinality(Range(s)) = Len(s) }

LibDocs == { d \in Docs : d.schedules = <<>> /\ \A i \in 1..Len(d.waypoints) : d.waypoints[i].id = i }

InitLib ==
    /\ pc = "start"
    /\ doc \in LibDocs
    /\ hotspots \in LibCatalogues
    /\ heap = <<>>
    /\ waypoints = <<>>
    /\ enriched = <<>>
    /\ advisories = <<>>
    /\ riskSummary = NoSummary
    /\ source = <<>>
    /\ ServiceIdle

\* analyze_route called on the list an earlier call returned
AnalyzeAgain ==
    /\ pc = "analyzed"
    /\ \E hs \in LibCatalogues :
          /\ hotspots' = hs
          /\ AnalyzeCall(enriched, hs, "reanalyzed")
    /\ UNCHANGED <<doc, waypoints, advisories, riskSummary, svcVars>>

NextLib ==
    \/ ParseRtzStep
    \/ AnalyzeRoute
    \/ AnalyzeAgain

SpecLib == InitLib /\ [][NextLib]_vars

(***************************************************************************)
(* generate_advisories under zone lists that differ in their severity      *)
(* labels: the pipeline up to the advisories, for the routes with          *)
(* increasing waypoint ids and no leg elements.                            *)
(***************************************************************************)
LabelDocs ==
    { d \in Docs :
        /\ d.defaultLeg = <<>>
        /\ \A i \in 1..Len(d.waypoints) :
              d.waypoints[i].id = i /\ d.waypoints[i].leg = <<>> }

InitLabels ==
    /\ pc = "start"
    /\ doc \in LabelDocs
    /\ hotspots \in Catalogues
    /\ heap = <<>>
    /\ waypoints = <<>>
    /\ enriched = <<>>
    /\ advisories = <<>>
    /\ riskSummary = NoSummary
    /\ source = <<>>
    /\ ServiceIdle

NextLabels ==
    \/ ParseRtzStep
    \/ AnalyzeRoute
    \/ GenerateAdvisories

SpecLabels == InitLabels /\ [][NextLabels]_vars

(***************************************************************************)
(* The service (app.py).  Every request handler is one action; the route   *)
(* source and the uploads are the environment.  A route is the pair        *)
(* [waypoints, heap] that parse_rtz returns; the hotspot catalogue is the  *)
(* one hotspot_source delivers.  The MCSSE push and the read-only          *)
(* endpoints change none of the state below and are left out.              *)
(***************************************************************************)
SvcDoc(pos, sched) ==
    [defaultLeg |-> <<LegEl>>,
     waypoints |-> [i \in 1..Len(pos) |->
                      [id |-> i, name |-> <<>>, position |-> <<pos[i]>>, leg |-> <<>>]],
     schedules |-> sched]

\* route A crosses RingA; route B crosses RingB, then RingA
SvcDocA == SvcDoc(<<P0, P1>>, <<>>)
SvcDocB == SvcDoc(<<P2, P1, P0>>, << << [waypointId |-> 1, eta |-> EtaIso(7, 30)] >> >>)

SvcDocs == { SvcDocA, SvcDocB }

\* what the route source can deliver: nothing (file absent or unparsable),
\* or a route document
Sources == { <<>> } \cup { <<d>> : d \in SvcDocs }

SvcCatalogues == { <<ZoneCongestion, ZoneFishing>>, <<ZoneDensity>> }

\* FileRouteSource.get_route_data: the parsed route, or None
GetRouteData(src) == IF src = <<>> THEN <<>> ELSE << ParseRtz(src[1]) >>

\* like GetRouteOp, but a fetched route is not kept
GetRouteNoStore(src, cached) ==
    LET data == GetRouteData(src)
    IN IF data /= <<>> THEN [data |-> data, cache |-> cached, warned |-> FALSE]
       ELSE [data |-> cached, cache |-> cached, warned |-> cached /= <<>>]

\* _get_route: [data: the value returned, cache: _cached_route afterwards,
\* warned: the warning was logged]
GetRouteOp(src, cached) ==
    LET data == GetRouteData(src)
    IN IF data /= <<>> THEN [data |-> data, cache |-> data, warned |-> FALSE]
       ELSE [data |-> cached, cache |-> cached, warned |-> cached /= <<>>]

\* _run_analysis: the value stored in _cached_analysis
RunAnalysisOp(route, hs) ==
    LET a == AnalyzeRouteOp(route.waypoints, route.heap, hs)
    IN [enrichedWaypoints |-> a.enriched,
        heap |-> a.heap,
        advisories |-> GenerateAdvisoriesOp(a.enriched, a.heap, hs),
        riskSummary |-> ComputeRiskSummaryOp(a.enriched, a.heap)]

\* the most recent successful fetch or upload, after a fetch from src
AfterFetch(src, good) == IF GetRouteData(src) /= <<>> THEN GetRouteData(src) ELSE good

\* the record of one pipeline run; again: the same inputs were run before
RunRecord(route, hs, analysis) ==
    [route |-> route, hotspots |-> hs,
     advisories |-> analysis.advisories, riskSummary |-> analysis.riskSummary,
     again |-> \E r \in runs : r.route = route /\ r.hotspots = hs]

\* data = _get_route(); 503 if None, else _run_analysis(data); the answer is
\* the whole analysis, or its advisories only
FetchAndAnalyze(whole) ==
    LET g == GetRouteOp(source, cachedRoute)
    IN /\ cachedRoute' = g.cache
       /\ lastGood' = AfterFetch(source, lastGood)
       /\ IF g.data = <<>>
          THEN /\ response' = [NoResponse EXCEPT !.status = 503]
               /\ UNCHANGED <<cachedAnalysis, analysisOf, runs>>
          ELSE LET analysis == RunAnalysisOp(g.data[1], hotspots)
               IN /\ cachedAnalysis' = <<analysis>>
                  /\ analysisOf' = g.data
                  /\ runs' = runs \cup { RunRecord(g.data[1], hotspots, analysis) }
                  /\ response' = [NoResponse EXCEPT
                                    !.status = 200,
                                    !.warned = g.warned,
                                    !.advisories = <<analysis.advisories>>,
                                    !.riskSummary = IF whole
                                                    THEN <<analysis.riskSummary>>
                                                    ELSE <<>>]

\* GET /api/route
GetRoute ==
    /\ pc = "service"
    /\ LET g == GetRouteOp(source, cachedRoute)
       IN /\ cachedRoute' = g.cache
          /\ lastGood' = AfterFetch(source, lastGood)
          /\ response' = [NoResponse EXCEPT
                            !.status = IF g.data = <<>> THEN 503 ELSE 200,
                            !.warned = g.warned,
                            !.route = g.data]
    /\ UNCHANGED <<pc, doc, hotspots, heap, waypoints, enriched, advisories, riskSummary,
                   source, cachedAnalysis, analysisOf, transmissionLog, runs>>

\* POST /api/route/upload; content: the document, or <<>> if it does not parse
UploadRtz ==
    /\ pc = "service"
    /\ \E rtzName \in BOOLEAN, content \in Sources :
          IF ~rtzName \/ content = <<>>
          THEN /\ response' = [NoResponse EXCEPT !.status = 400]
               /\ UNCHANGED <<cachedRoute, cachedAnalysis, analysisOf, lastGood>>
          ELSE LET data == ParseRtz(content[1])
               IN /\ cachedRoute' = <<data>>
                  /\ cachedAnalysis' = <<>>
                  /\ analysisOf' = <<>>
                  /\ lastGood' = <<data>>
                  /\ response' = [NoResponse EXCEPT !.status = 200, !.route = <<data>>]
    /\ UNCHANGED <<pc, doc, hotspots, heap, waypoints, enriched, advisories, riskSummary,
                   source, transmissionLog, runs>>

\* POST /api/analyze-route
AnalyzeRouteEndpoint ==
    /\ pc = "service"
    /\ FetchAndAnalyze(TRUE)
    /\ UNCHANGED <<pc, doc, hotspots, heap, waypoints, enriched, advisories, riskSummary,
                   source, transmissionLog>>

\* GET /api/advisories
GetAdvisories ==
    /\ pc = "service"
    /\ IF cachedAnalysis = <<>>
       THEN FetchAndAnalyze(FALSE)
       ELSE /\ response' = [NoResponse EXCEPT
                              !.status = 200,
                              !.advisories = <<cachedAnalysis[1].advisories>>]
            /\ UNCHANGED <<cachedRoute, cachedAnalysis, analysisOf, lastGood, runs>>
    /\ UNCHANGED <<pc, doc, hotspots, heap, waypoints, enriched, advisories, riskSummary,
                   source, transmissionLog>>

\* the advisory ids a client may ask to transmit
AdvisoryIds == { AdvId(n) : n \in 1..3 }

\* next((a for a in advisories if a["id"] == advisory_id), None), a 0/1-sequence
FindAdvisory(advs, advisoryId) ==
    LET hits == SelectSeq(advs, LAMBDA a : a.id = advisoryId)
    IN IF hits = <<>> THEN <<>> ELSE << hits[1] >>

\* msg_index
MsgIndexOfLast(log) == Len(log)

MsgIndex(log) == Len(log) + 1

\* f"MSG-2026-04-27-{msg_index:03d}"
MsgId(index) == <<"MSG", "2026-04-27", Pad3(index)>>

LogEntry(msgId, advisoryId, advisory) ==
    [messageId |-> msgId, advisoryId |-> advisoryId,
     advisoryTitle |-> advisory.title, advisoryType |-> advisory.type,
     severity |-> advisory.severity, status |-> "pending"]

\* POST /api/advisories/{advisory_id}/transmit
TransmitAdvisoryFor(advisoryId) ==
    /\ pc = "service"
    /\ IF cachedAnalysis = <<>>
       THEN /\ response' = [NoResponse EXCEPT !.status = 400]
            /\ UNCHANGED <<cachedRoute, lastGood, transmissionLog>>
       ELSE LET advisory == FindAdvisory(cachedAnalysis[1].advisories, advisoryId)
            IN IF advisory = <<>>
               THEN /\ response' = [NoResponse EXCEPT !.status = 404]
                    /\ UNCHANGED <<cachedRoute, lastGood, transmissionLog>>
               ELSE /\ Len(transmissionLog) < MaxLog
                    /\ cachedRoute' = GetRouteOp(source, cachedRoute).cache
                    /\ lastGood' = AfterFetch(source, lastGood)
                    /\ transmissionLog' =
                          Append(transmissionLog,
                                 LogEntry(MsgId(MsgIndex(transmissionLog)),
                                          advisoryId, advisory[1]))
                    /\ response' = [NoResponse EXCEPT
                                      !.status = 200,
                                      !.warned = GetRouteOp(source, cachedRoute).warned,
                                      !.messageId = << MsgId(MsgIndex(transmissionLog)) >>]
    /\ UNCHANGED <<pc, doc, hotspots, heap, waypoints, enriched, advisories, riskSummary,
                   source, cachedAnalysis, analysisOf, runs>>

TransmitAdvisory == \E advisoryId \in AdvisoryIds : TransmitAdvisoryFor(advisoryId)

\* the file behind the route source is replaced, removed or damaged
SourceChange ==
    /\ pc = "service"
    /\ \E s \in Sources \ { source } : source' = s
    /\ UNCHANGED <<pc, doc, hotspots, heap, waypoints, enriched, advisories, riskSummary,
                   cachedRoute, cachedAnalysis, analysisOf, lastGood, transmissionLog,
                   response, runs>>

InitService ==
    /\ pc = "service"
    /\ doc = SvcDocA
    /\ hotspots \in SvcCatalogues
    /\ heap = <<>>
    /\ waypoints = <<>>
    /\ enriched = <<>>
    /\ advisories = <<>>
    /\ riskSummary = NoSummary
    /\ source \in Sources
    /\ ServiceIdle

NextService ==
    \/ GetRoute
    \/ UploadRtz
    \/ AnalyzeRouteEndpoint
    \/ GetAdvisories
    \/ TransmitAdvisory
    \/ SourceChange

SpecService == InitService /\ [][NextService]_vars

(***************************************************************************)
(* Vocabulary of the properties.                                           *)
(***************************************************************************)
RECURSIVE FromDigits(_)
FromDigits(d) == IF d = <<>> THEN 0 ELSE 10 * FromDigits(SubSeq(d, 1, Len(d) - 1)) + d[Len(d)]

\* the sequence number in an advisory id
SeqNum(a) == FromDigits(a.id[3])

Generated == pc \in { "advised", "done" }

\* the legs of the analysed route: leg i runs from waypoint i to waypoint i + 1
Legs == 1..(Len(enriched) - 1)

\* the leg an advisory is about (waypoint ids are unique within a route)
LegOf(a) == CHOOSE i \in Legs : enriched[i].id = a.relatedWaypoints[1]

\* the tabled default severity of the four advisory types
TabledDefault(advType) ==
    CASE advType \in { "traffic_density_warning", "crossing_traffic_alert" } -> "high"
      [] advType = "congestion_advisory" -> "medium"
      [] advType = "fishing_activity_notice" -> "low"

\* eta is a parsable timestamp whose hour lies in [start hour, end hour) of a
\* well-formed window of the list
FallsInPeak(eta, windows) ==
    /\ eta.kind = "iso" /\ eta.hh < 24 /\ eta.mm < 60
    /\ \E k \in 1..Len(windows) :
          /\ Len(windows[k]) = 2
          /\ windows[k][1][1] <= eta.hh
          /\ eta.hh < windows[k][2][1]

\* rank of the order high > medium > low
Rank(sev) == CASE sev = "high" -> 3 [] sev = "medium" -> 2 [] sev = "low" -> 1

(***************************************************************************)
(* C1 - Escalation law: every advisory returned by generate_advisories has *)
(* severity "high" whenever its inPeakWindow flag is true, and otherwise   *)
(* the tabled default severity of its type.                                *)
(***************************************************************************)
C1_EscalationLaw ==
    Generated =>
        \A k \in 1..Len(advisories) :
            LET a == advisories[k]
            IN /\ a.type \in { "traffic_density_warning", "crossing_traffic_alert",
                               "congestion_advisory", "fishing_activity_notice" }
               /\ a.severity = IF a.structuredData.inPeakWindow
                               THEN "high"
                               ELSE TabledDefault(a.type)

\* an advisory of a type whose default is not high was escalated, next to one
\* that was not
C1_Witness ==
    /\ Generated
    /\ \E k \in 1..Len(advisories) :
          /\ advisories[k].structuredData.inPeakWindow
          /\ TabledDefault(advisories[k].type) /= "high"
          /\ advisories[k].severity = "high"
    /\ \E k \in 1..Len(advisories) :
          /\ ~advisories[k].structuredData.inPeakWindow
          /\ advisories[k].severity = "low"

(***************************************************************************)
(* C2 - as claimed: for every advisory of the leg from waypoint i to       *)
(* waypoint i + 1, the ETA tested against the zone's peak-hour windows,    *)
(* which decides inPeakWindow and the escalation, is the ETA of the        *)
(* destination waypoint i + 1.                                             *)
(***************************************************************************)
C2_DestinationEta ==
    Generated =>
        \A k \in 1..Len(advisories) :
            LET a == advisories[k]
                dest == enriched[LegOf(a) + 1]
            IN /\ a.structuredData.vesselETA = dest.eta
               /\ a.structuredData.inPeakWindow
                    = FallsInPeak(dest.eta, a.structuredData.peakWindow)

(***************************************************************************)
(* C2 - amended: the ETA tested against the zone's peak-hour windows is    *)
(* the ETA of the origin waypoint i of the leg; it decides inPeakWindow,   *)
(* and an advisory whose origin ETA falls in a peak window is "high".      *)
(***************************************************************************)
C2_OriginEta ==
    Generated =>
        \A k \in 1..Len(advisories) :
            LET a == advisories[k]
                origin == enriched[LegOf(a)]
            IN /\ a.structuredData.vesselETA = origin.eta
               /\ a.structuredData.inPeakWindow
                    = FallsInPeak(origin.eta, a.structuredData.peakWindow)
               /\ FallsInPeak(origin.eta, a.structuredData.peakWindow)
                    => a.severity = "high"

\* an advisory whose origin ETA is in a peak window and whose destination ETA
\* is not, and one the other way round
C2_Witness ==
    /\ Generated
    /\ \E k \in 1..Len(advisories) :
          LET a == advisories[k]
          IN /\ FallsInPeak(enriched[LegOf(a)].eta, a.structuredData.peakWindow)
             /\ ~FallsInPeak(enriched[LegOf(a) + 1].eta, a.structuredData.peakWindow)
             /\ a.structuredData.inPeakWindow
    /\ \E k \in 1..Len(advisories) :
          LET a == advisories[k]
          IN /\ ~FallsInPeak(enriched[LegOf(a)].eta, a.structuredData.peakWindow)
             /\ FallsInPeak(enriched[LegOf(a) + 1].eta, a.structuredData.peakWindow)
             /\ ~a.structuredData.inPeakWindow

(***************************************************************************)
(* C3 - Zone fan-out: with analyze_route and generate_advisories run on    *)
(* the same zone list, a leg that intersects k zones yields exactly k      *)
(* advisories, one for each of the k intersecting zones, each describing   *)
(* its own zone, and every advisory's relatedHotspots holds exactly one    *)
(* hotspot id.  Stated on the advisories in emission order (by sequence    *)
(* number): they are the (leg, intersecting zone) pairs in route order and *)
(* catalogue order.                                                        *)
(***************************************************************************)
RECURSIVE LegZonePairs(_)
\* the (leg, zone) pairs of legs 1..i with a constructible zone that the leg
\* intersects, legs in route order, zones in catalogue order
LegZonePairs(i) ==
    IF i = 0 THEN <<>>
    ELSE LET zs == IntersectingZones(waypoints[i], waypoints[i + 1], hotspots)
         IN LegZonePairs(i - 1) \o [k \in 1..Len(zs) |-> [leg |-> i, zone |-> zs[k]]]

AllLegZonePairs == LegZonePairs(Max2(Len(waypoints), 1) - 1)

\* the advisory with sequence number n
BySeqNum(n) == advisories[CHOOSE k \in 1..Len(advisories) : SeqNum(advisories[k]) = n]

C3_ZoneFanOut ==
    Generated =>
        /\ Len(advisories) = Len(AllLegZonePairs)
        /\ \A n \in 1..Len(AllLegZonePairs) :
              /\ \E k \in 1..Len(advisories) : SeqNum(advisories[k]) = n
              /\ LET a == BySeqNum(n)
                     p == AllLegZonePairs[n]
                 IN /\ a.relatedWaypoints = <<waypoints[p.leg].id, waypoints[p.leg + 1].id>>
                    /\ a.relatedHotspots = <<p.zone.id>>
                    /\ a.title[2] = p.zone.name
                    /\ a.type = TYPE_TO_ADVISORY(p.zone.type)
                    /\ a.structuredData.peakWindow = p.zone.metadata.peak_hours_utc

(***************************************************************************)
(* C4 - Ordering law: in the list returned by generate_advisories every    *)
(* adjacent pair a, b has (rank(a.severity), a.relatedWaypoints[0]) <=     *)
(* (rank(b.severity), b.relatedWaypoints[0]) lexicographically, with rank  *)
(* high=0, medium=1, low=2, unknown=3; advisories with equal keys keep     *)
(* their generation order; sorting the list again changes nothing.         *)
(***************************************************************************)
OrderRank(sev) ==
    IF sev = "high" THEN 0 ELSE IF sev = "medium" THEN 1 ELSE IF sev = "low" THEN 2 ELSE 3

C4_OrderingLaw ==
    Generated =>
        /\ \A k \in 1..(Len(advisories) - 1) :
              LET a == advisories[k]
                  b == advisories[k + 1]
                  ra == OrderRank(a.severity)
                  rb == OrderRank(b.severity)
              IN /\ ra <= rb
                 /\ ra = rb => a.relatedWaypoints[1] <= b.relatedWaypoints[1]
                 /\ (ra = rb /\ a.relatedWaypoints[1] = b.relatedWaypoints[1])
                       => SeqNum(a) < SeqNum(b)
        /\ SortAdvisories(advisories) = advisories

\* the sort moved something, and two advisories with equal keys are present
C4_Witness ==
    /\ Generated
    /\ Len(advisories) >= 3
    /\ \E k \in 1..Len(advisories) : SeqNum(advisories[k]) /= k
    /\ \E k \in 1..(Len(advisories) - 1) :
          SortKey(advisories[k]) = SortKey(advisories[k + 1])
    /\ \E k \in 1..(Len(advisories) - 1) :
          /\ advisories[k].severity = advisories[k + 1].severity
          /\ advisories[k].relatedWaypoints[1] < advisories[k + 1].relatedWaypoints[1]
          /\ SeqNum(advisories[k]) > SeqNum(advisories[k + 1])

(***************************************************************************)
(* C5 - Advisory ids: in one generate_advisories call that emits N         *)
(* advisories the sequence numbers of the ids are exactly 1..N, each used  *)
(* once, so the ids are pairwise distinct; before the final sort the k-th  *)
(* emitted advisory has sequence number k; the number is zero-padded to    *)
(* three digits.                                                           *)
(***************************************************************************)
C5_AdvisoryIds ==
    Generated =>
        LET emitted == EmitAdvisories(enriched, heap, hotspots)
        IN /\ { SeqNum(advisories[k]) : k \in 1..Len(advisories) } = 1..Len(advisories)
           /\ \A j, k \in 1..Len(advisories) :
                 j /= k => advisories[j].id /= advisories[k].id
           /\ Len(emitted) = Len(advisories)
           /\ \A k \in 1..Len(emitted) :
                 /\ SeqNum(emitted[k]) = k
                 /\ Len(emitted[k].id[3]) = 3
                 /\ emitted[k].id[1] = "ADV"

\* several advisories over two legs, reordered by the sort
C5_Witness ==
    /\ Generated
    /\ Len(advisories) >= 3
    /\ Cardinality({ advisories[k].relatedWaypoints : k \in 1..Len(advisories) }) >= 2
    /\ \E k \in 1..Len(advisories) : SeqNum(advisories[k]) /= k

(***************************************************************************)
(* C6 - For every leg that intersects at least one zone, analyze_route     *)
(* attaches a riskAssessment whose level is the maximum severity (high >   *)
(* medium > low) among the zones intersecting that leg, and whose          *)
(* intersectingHotspots lists the ids of exactly those zones in catalogue  *)
(* order.  (A zone without a severity label counts as low.)                *)
(***************************************************************************)
Analyzed == pc \in { "analyzed", "advised", "done" }

C6_RiskAssessment ==
    Analyzed =>
        \A i \in 1..(Len(waypoints) - 1) :
            LET zs == IntersectingZones(waypoints[i], waypoints[i + 1], hotspots)
                risk == RiskOf(heap, enriched[i])
            IN zs /= <<>> =>
                 /\ risk /= <<>>
                 /\ \A k \in 1..Len(zs) : Rank(risk[1].level) >= Rank(SeverityOf(zs[k]))
                 /\ \E k \in 1..Len(zs) : risk[1].level = SeverityOf(zs[k])
                 /\ risk[1].intersectingHotspots = [k \in 1..Len(zs) |-> zs[k].id]

\* a leg intersecting two zones, the second more severe than the first
C6_Witness ==
    /\ Analyzed
    /\ \E i \in 1..(Len(waypoints) - 1) :
          LET zs == IntersectingZones(waypoints[i], waypoints[i + 1], hotspots)
          IN /\ Len(zs) = 2
             /\ Rank(SeverityOf(zs[1])) < Rank(SeverityOf(zs[2]))
             /\ RiskOf(heap, enriched[i]) /= <<>>
             /\ RiskOf(heap, enriched[i])[1].level = SeverityOf(zs[2])

(***************************************************************************)
(* C7 - Severity monotonicity: compute_risk_summary returns an overallRisk *)
(* whose rank is at least the rank of every riskyLegs entry's riskLevel,   *)
(* and overallRisk is the highest severity observed across the risky legs, *)
(* or "low" when there are none.                                           *)
(***************************************************************************)
Summarised == pc = "done"

C7_SeverityMonotonicity ==
    Summarised =>
        LET legs == riskSummary.riskyLegs
        IN /\ \A k \in 1..Len(legs) :
                 Rank(riskSummary.overallRisk) >= Rank(legs[k].riskLevel)
           /\ IF legs = <<>>
              THEN riskSummary.overallRisk = "low"
              ELSE \E k \in 1..Len(legs) : riskSummary.overallRisk = legs[k].riskLevel

\* two risky legs, the later one less severe than the earlier one
C7_Witness ==
    /\ Summarised
    /\ Len(riskSummary.riskyLegs) = 2
    /\ Rank(riskSummary.riskyLegs[1].riskLevel) > Rank(riskSummary.riskyLegs[2].riskLevel)
    /\ riskSummary.overallRisk = riskSummary.riskyLegs[1].riskLevel

(***************************************************************************)
(* C8 - hotspotCount is the number of distinct hotspot ids in the union of *)
(* intersectingHotspots over all legs carrying a risk assessment: an id    *)
(* touched by several legs is counted once.                                *)
(***************************************************************************)
RiskyLegSet == { i \in Legs : RiskOf(heap, enriched[i]) /= <<>> }

TouchedIds == UNION { Range(RiskOf(heap, enriched[i])[1].intersectingHotspots) : i \in RiskyLegSet }

C8_HotspotCount ==
    Summarised => riskSummary.hotspotCount = Cardinality(TouchedIds)

\* an id is touched by two legs, and another id as well
C8_Witness ==
    /\ Summarised
    /\ riskSummary.hotspotCount = 2
    /\ \E i, j \in RiskyLegSet :
          /\ i /= j
          /\ Range(RiskOf(heap, enriched[i])[1].intersectingHotspots)
               \cap Range(RiskOf(heap, enriched[j])[1].intersectingHotspots) /= {}

(***************************************************************************)
(* C9 - riskyLegs holds exactly one record for each leg i (0 <= i <= n-2)  *)
(* whose origin waypoint carries a risk assessment, in strictly increasing *)
(* legIndex order, with the ids of waypoints i and i+1 as from/to; a route *)
(* with no risky legs yields overallRisk "low", hotspotCount 0 and an      *)
(* empty riskyLegs list.                                                   *)
(***************************************************************************)
C9_RiskyLegs ==
    Summarised =>
        LET legs == riskSummary.riskyLegs
        IN /\ { legs[k].legIndex : k \in 1..Len(legs) } = { i - 1 : i \in RiskyLegSet }
           /\ Len(legs) = Cardinality(RiskyLegSet)
           /\ \A k \in 1..(Len(legs) - 1) : legs[k].legIndex < legs[k + 1].legIndex
           /\ \A k \in 1..Len(legs) :
                 LET i == legs[k].legIndex + 1
                 IN /\ legs[k].fromWaypointId = enriched[i].id
                    /\ legs[k].toWaypointId = enriched[i + 1].id
                    /\ legs[k].riskLevel = RiskOf(heap, enriched[i])[1].level
           /\ RiskyLegSet = {} =>
                 riskSummary = [overallRisk |-> "low", hotspotCount |-> 0, riskyLegs |-> <<>>]

\* the only risky leg is the second leg of a three-waypoint route
C9_Witness ==
    /\ Summarised
    /\ Len(enriched) = 3
    /\ RiskyLegSet = { 2 }
    /\ Len(riskSummary.riskyLegs) = 1
    /\ riskSummary.riskyLegs[1].legIndex = 1

(***************************************************************************)
(* C10 - analyze_route leaves its inputs unmodified: every input waypoint  *)
(* record and every leg record reachable from it, a default leg shared by  *)
(* several waypoints included, is as before the call; a riskAssessment     *)
(* attached to an output waypoint's leg is on no input waypoint's leg and  *)
(* on no other output waypoint's leg.                                      *)
(***************************************************************************)
InputLegs == { waypoints[i].leg : i \in 1..Len(waypoints) } \ { NoLeg }

\* output legs are records of their own: none is an input leg record, and no
\* two output waypoints hold the same leg record
OutputLegsFresh ==
    /\ \A i \in 1..Len(enriched) :
          enriched[i].leg /= NoLeg => enriched[i].leg \notin InputLegs
    /\ \A i, j \in 1..Len(enriched) :
          (i /= j /\ enriched[i].leg /= NoLeg) => enriched[i].leg /= enriched[j].leg
    /\ \A a \in InputLegs : heap[a].riskAssessment = <<>>

C10_InputsUnmodified ==
    [][AnalyzeRoute =>
          /\ waypoints' = waypoints
          /\ SubSeq(heap', 1, Len(heap)) = heap
          /\ OutputLegsFresh']_vars

\* the default leg is shared by two input waypoints, and one leg of the
\* output that copies it carries a riskAssessment while the other does not
C10_Witness ==
    /\ Analyzed
    /\ \E i, j \in 1..Len(waypoints) :
          /\ i /= j
          /\ waypoints[i].leg /= NoLeg
          /\ waypoints[i].leg = waypoints[j].leg
          /\ RiskOf(heap, enriched[i]) /= <<>>
          /\ RiskOf(heap, enriched[j]) = <<>>
          /\ heap[waypoints[i].leg].riskAssessment = <<>>

(***************************************************************************)
(* C12 - A zone whose footprint is malformed is excluded from all          *)
(* intersection tests: analyze_route returns the result it would return    *)
(* for the zone list with the malformed zones removed, and no              *)
(* riskAssessment names a malformed zone.                                  *)
(***************************************************************************)
HasFootprint(z) == z.geometry /= <<>>

WellFormedZones(hs) == SelectSeq(hs, HasFootprint)

C12_MalformedExcluded ==
    Analyzed =>
        LET r == AnalyzeRouteOp(waypoints, ParseRtz(doc).heap, WellFormedZones(hotspots))
        IN /\ enriched = r.enriched
           /\ heap = r.heap
           /\ \A i \in 1..Len(enriched) :
                 RiskOf(heap, enriched[i]) /= <<>> =>
                    \A k \in 1..Len(RiskOf(heap, enriched[i])[1].intersectingHotspots) :
                       \E j \in 1..Len(hotspots) :
                          /\ HasFootprint(hotspots[j])
                          /\ hotspots[j].id
                               = RiskOf(heap, enriched[i])[1].intersectingHotspots[k]

\* a malformed zone stands first in the list, a well-formed zone behind it
\* is intersected by a leg
C12_Witness ==
    /\ Analyzed
    /\ Len(hotspots) = 2
    /\ ~HasFootprint(hotspots[1])
    /\ HasFootprint(hotspots[2])
    /\ \E i \in 1..Len(enriched) :
          /\ RiskOf(heap, enriched[i]) /= <<>>
          /\ RiskOf(heap, enriched[i])[1].intersectingHotspots = <<hotspots[2].id>>

(***************************************************************************)
(* C14 - Peak-window matching: the ETA is in peak if and only if it parses *)
(* as a timestamp and at least one declared window "HH:MM-HH:MM" has       *)
(* start_hour <= eta_hour < end_hour (minutes ignored); the window         *)
(* reported is then the first such window in list order; if the ETA is     *)
(* absent or unparsable, the zone declares no windows or none matches, no  *)
(* window is reported and the advisory is not escalated.                   *)
(***************************************************************************)
MatchingWindows(eta, windows) ==
    { k \in 1..Len(windows) :
        /\ Len(windows[k]) = 2
        /\ windows[k][1][1] <= eta.hh
        /\ eta.hh < windows[k][2][1] }

EtaParses(eta) == eta.kind = "iso" /\ eta.hh < 24 /\ eta.mm < 60

\* the window named in the advisory's message, a 0/1-sequence
ReportedWindow(a) == IF a.message.eta = <<>> THEN <<>> ELSE a.message.eta[1].window

C14_PeakWindowMatching ==
    Generated =>
        \A n \in 1..Len(advisories) :
            LET a == advisories[n]
                eta == a.structuredData.vesselETA
                ws == a.structuredData.peakWindow
                ms == MatchingWindows(eta, ws)
            IN IF EtaParses(eta) /\ ms /= {}
               THEN /\ a.structuredData.inPeakWindow
                    /\ ReportedWindow(a)
                         = << ws[CHOOSE k \in ms : \A j \in ms : k <= j] >>
               ELSE /\ ~a.structuredData.inPeakWindow
                    /\ ReportedWindow(a) = <<>>
                    /\ a.severity = TabledDefault(a.type)

\* one advisory matches a window by its hour although its minute lies before
\* the window's start minute, with a second matching window behind it; one
\* has an unparsable ETA and declared windows; one has no ETA
C14_Witness ==
    /\ Generated
    /\ \E n \in 1..Len(advisories) :
          LET a == advisories[n]
              eta == a.structuredData.vesselETA
              ws == a.structuredData.peakWindow
              ms == MatchingWindows(eta, ws)
          IN /\ a.structuredData.inPeakWindow
             /\ Cardinality(ms) = 2
             /\ \E k \in ms : eta.hh = ws[k][1][1] /\ eta.mm < ws[k][1][2]
             /\ ReportedWindow(a) /= << ws[CHOOSE k \in ms : \A j \in ms : k >= j] >>
    /\ \E n \in 1..Len(advisories) :
          LET a == advisories[n]
          IN /\ a.structuredData.vesselETA.kind = "iso"
             /\ ~EtaParses(a.structuredData.vesselETA)
             /\ a.structuredData.peakWindow /= <<>>
             /\ ~a.structuredData.inPeakWindow

(***************************************************************************)
(* C16 - ETA resolution in parse_rtz: each waypoint's eta is the eta of    *)
(* the last-processed schedule element (schedules in document order,       *)
(* elements in order within each schedule) whose waypointId equals the     *)
(* waypoint's id, and is absent (None) when no element names that id.      *)
(***************************************************************************)
Parsed == pc /= "start"

RECURSIVE ElementsOf(_, _)
\* the schedule elements of the first n schedules of the document, in order
ElementsOf(d, n) ==
    IF n = 0 THEN <<>> ELSE ElementsOf(d, n - 1) \o d.schedules[n]

C16_EtaResolution ==
    Parsed =>
        LET elems == ElementsOf(doc, Len(doc.schedules))
        IN \A i \in 1..Len(waypoints) :
              LET refs == { k \in 1..Len(elems) : elems[k].waypointId = waypoints[i].id }
              IN IF refs = {}
                 THEN waypoints[i].eta = EtaNone
                 ELSE waypoints[i].eta = elems[CHOOSE k \in refs : \A j \in refs : j <= k].eta

\* a waypoint named by an element of each of two schedules, with different
\* etas, carries the eta of the later one
C16_Witness ==
    /\ Parsed
    /\ Len(doc.schedules) = 2
    /\ \E i \in 1..Len(waypoints) :
          \E j \in 1..Len(doc.schedules[1]), k \in 1..Len(doc.schedules[2]) :
             /\ doc.schedules[1][j].waypointId = waypoints[i].id
             /\ doc.schedules[2][k].waypointId = waypoints[i].id
             /\ doc.schedules[1][j].eta /= doc.schedules[2][k].eta
             /\ waypoints[i].eta = doc.schedules[2][k].eta

(***************************************************************************)
(* C18 - generate_advisories returns the advisories sorted by severity     *)
(* (high to low) and, among advisories of equal severity, in waypoint      *)
(* order along the route: an advisory for an earlier leg precedes an       *)
(* advisory for a later leg, also when the waypoint ids do not increase    *)
(* along the route.                                                        *)
(***************************************************************************)
C18_RouteOrder ==
    Generated =>
        \A k \in 1..(Len(advisories) - 1) :
            LET a == advisories[k]
                b == advisories[k + 1]
            IN /\ OrderRank(a.severity) <= OrderRank(b.severity)
               /\ a.severity = b.severity => LegOf(a) <= LegOf(b)

(***************************************************************************)
(* C11 (as stated) - In the output of analyze_route, for any input         *)
(* waypoint list, whatever its leg records already contain, a leg that     *)
(* intersects no zone of the given zone list carries no riskAssessment.    *)
(***************************************************************************)
Returned == pc \in { "analyzed", "reanalyzed" }

ClearLegs(ws, hs) ==
    { i \in 1..(Len(ws) - 1) : IntersectingZones(ws[i], ws[i + 1], hs) = <<>> }

C11_ClearLegUnassessed ==
    Returned => \A i \in ClearLegs(enriched, hotspots) : RiskOf(heap, enriched[i]) = <<>>

(***************************************************************************)
(* C11 (amended) - A call of analyze_route gives no riskAssessment to a    *)
(* leg that intersects no zone of the given zone list, nor to the last     *)
(* waypoint: in the output, such a waypoint's riskAssessment is the one    *)
(* its leg record had in the input, and is absent if the input had none.   *)
(***************************************************************************)
C11_ClearLegKeepsInput ==
    [][ (AnalyzeRoute \/ AnalyzeAgain) /\ pc' /= "error" =>
          LET inp == IF pc = "parsed" THEN waypoints ELSE enriched
          IN \A i \in (ClearLegs(inp, hotspots') \cup { Len(inp) }) \ { 0 } :
                RiskOf(heap', enriched'[i]) = RiskOf(heap, inp[i]) ]_vars

\* the second call returned: a leg that intersects no zone of its zone list
\* still carries the assessment of the first call, another leg has none,
\* and so has the last waypoint
C11_Witness ==
    /\ pc = "reanalyzed"
    /\ \E i \in ClearLegs(enriched, hotspots) : RiskOf(heap, enriched[i]) /= <<>>
    /\ \E i \in ClearLegs(enriched, hotspots) : RiskOf(heap, enriched[i]) = <<>>
    /\ RiskOf(heap, enriched[Len(enriched)]) = <<>>

(***************************************************************************)
(* C13 - analyze_route never fails because of bad hotspot data: for any    *)
(* list of zone records, including records with missing fields, the call   *)
(* returns an annotated waypoint list instead of raising.                  *)
(***************************************************************************)
C13_NeverRaises == pc /= "error"

C17_LastKnownGood ==
    [][ /\ GetRoute =>
            IF source /= <<>>
            THEN /\ response'.route = << ParseRtz(source[1]) >>
                 /\ cachedRoute' = response'.route
            ELSE /\ response'.route = lastGood
                 /\ cachedRoute' = cachedRoute
                 /\ (response'.status = 503) <=> (lastGood = <<>>)
                 /\ response'.warned <=> (lastGood /= <<>>)
        /\ cachedRoute' = lastGood'
        /\ cachedRoute' /= cachedRoute =>
              \/ source /= <<>> /\ cachedRoute' = << ParseRtz(source[1]) >>
              \/ UploadRtz /\ response'.status = 200 ]_vars

\* GET /api/route was answered from the cache because the fetch failed, and
\* the cached route is one that was uploaded, not one that was analysed
C17_Witness ==
    /\ source = <<>>
    /\ response.warned
    /\ response.status = 200
    /\ response.route = cachedRoute
    /\ response.advisories = <<>>
    /\ response.messageId = <<>>
    /\ cachedAnalysis = <<>>
    /\ runs /= {}

(***************************************************************************)
(* C19 - Analysis-cache coherence: in every reachable state of the         *)
(* service a non-empty cached analysis was computed from the route         *)
(* currently held as the cached route.                                     *)
(***************************************************************************)
C19_AnalysisOfCachedRoute == cachedAnalysis /= <<>> => analysisOf = cachedRoute

(***************************************************************************)
(* C20 - Transmission log: the log only grows; each successful transmit    *)
(* appends exactly one entry with status "pending" whose messageId         *)
(* sequence number equals its 1-based position in the log, so message ids  *)
(* are pairwise distinct; a transmit rejected with 400 (no analysis        *)
(* cached) or 404 (advisory id not in the cached analysis) leaves the log  *)
(* unchanged.                                                              *)
(***************************************************************************)
MsgSeqNum(entry) == FromDigits(entry.messageId[3])

C20_TransmissionLog ==
    [][ /\ Len(transmissionLog') >= Len(transmissionLog)
        /\ SubSeq(transmissionLog', 1, Len(transmissionLog)) = transmissionLog
        /\ \A id \in AdvisoryIds :
              TransmitAdvisoryFor(id) =>
                 IF cachedAnalysis = <<>>
                 THEN response'.status = 400 /\ transmissionLog' = transmissionLog
                 ELSE IF \A k \in 1..Len(cachedAnalysis[1].advisories) :
                            cachedAnalysis[1].advisories[k].id /= id
                      THEN response'.status = 404 /\ transmissionLog' = transmissionLog
                      ELSE /\ response'.status = 200
                           /\ Len(transmissionLog') = Len(transmissionLog) + 1
                           /\ transmissionLog'[Len(transmissionLog')].status = "pending"
                           /\ transmissionLog'[Len(transmissionLog')].advisoryId = id
        /\ \A k \in 1..Len(transmissionLog') : MsgSeqNum(transmissionLog'[k]) = k
        /\ \A j, k \in 1..Len(transmissionLog') :
              j /= k => transmissionLog'[j].messageId /= transmissionLog'[k].messageId
      ]_vars

\* the log is full, its first two entries carry the same advisory id but
\* come from the analyses of different routes, and the last transmit was
\* rejected with 404
C20_Witness ==
    /\ Len(transmissionLog) = MaxLog
    /\ transmissionLog[1].advisoryTitle /= transmissionLog[2].advisoryTitle
    /\ transmissionLog[1].advisoryId = transmissionLog[2].advisoryId
    /\ response.status = 404

(***************************************************************************)
(* C21 - An advisory's severity does not depend on the zone's own severity *)
(* label: for the same annotated waypoints, two zone lists that differ     *)
(* only in the zones' severity values make generate_advisories return      *)
(* identical advisories (same types, severities, ids and order); an        *)
(* advisory can therefore have a lower severity than the riskAssessment    *)
(* level of the leg it describes.                                          *)
(***************************************************************************)
SeverityLabels == { "high", "medium", "low" }

\* the zone list hs with the severity labels f[1], f[2], ...
Relabel(hs, f) == [k \in 1..Len(hs) |-> [hs[k] EXCEPT !.severity = f[k]]]

Relabellings(hs) == { Relabel(hs, f) : f \in [1..Len(hs) -> SeverityLabels] }

C21_SeverityLabelIgnored ==
    pc = "advised" =>
        \A hs2 \in Relabellings(hotspots) :
            GenerateAdvisoriesOp(enriched, heap, hs2) = advisories

\* generate_advisories returned a "medium" or "low" advisory for a leg whose
\* riskAssessment level is "high", and an advisory for a zone labelled "low"
C21_Witness ==
    /\ pc = "advised"
    /\ \E n \in 1..Len(advisories) :
          /\ advisories[n].severity \in { "medium", "low" }
          /\ RiskOf(heap, enriched[LegOf(advisories[n])])[1].level = "high"
    /\ \E n \in 1..Len(advisories) : \E k \in 1..Len(hotspots) :
          /\ hotspots[k].id = advisories[n].relatedHotspots[1]
          /\ hotspots[k].severity = "low"

====
